---- MODULE Spec2Model ----
(***************************************************************************)
(* The retrieval-augmented question-answering pipeline of LearnAid:        *)
(* vector_service.py (chunking, embedding, FAISS store and its files),     *)
(* chatbot_service.py (process_message and the session store), the        *)
(* chatbot API handlers and the PDF upload's _store_in_vector_db.          *)
(*                                                                         *)
(* One process is modelled, with the two VectorStoreService objects it     *)
(* builds at import time (the module-level vector_service and the one     *)
(* ChatbotService.__init__ creates), the two files of the FAISS store,     *)
(* and process restarts.  Every handler is a coroutine without a real      *)
(* suspension point (no awaited I/O), so each runs as one atomic action.   *)
(*                                                                         *)
(* Texts are sequences of one-character strings.  A float score is the     *)
(* squared L2 distance of integer vectors; a confidence is an integer      *)
(* number of thousandths.                                                  *)
(***************************************************************************)
EXTENDS Integers, Sequences, FiniteSets, TLC

VARIABLES env, disk, vector_service, chatbot_service, resp

vars == <<env, disk, vector_service, chatbot_service, resp>>

(***************************************************************************)
(* Bounds of the model.                                                    *)
(***************************************************************************)
MaxRows == 2
MaxCourse == 1
MaxK == 1
MaxTurns == 1
Dim == 2

(***************************************************************************)
(* Program constants.                                                      *)
(***************************************************************************)
DefaultChunkSize == 500
DefaultOverlap == 50
ChatTopK == 3
OverfetchFactor == 2

(***************************************************************************)
(* Texts.                                                                  *)
(***************************************************************************)
Whitespace == {" ", "\n", "\t"}

RECURSIVE LStrip(_)
LStrip(s) ==
    IF s # <<>> /\ Head(s) \in Whitespace THEN LStrip(Tail(s)) ELSE s

RECURSIVE RStrip(_)
RStrip(s) ==
    IF s # <<>> /\ s[Len(s)] \in Whitespace
    THEN RStrip(SubSeq(s, 1, Len(s) - 1))
    ELSE s

\* str.strip()
Strip(s) == RStrip(LStrip(s))

\* text[start:end] for 0 <= start <= end <= len(text)
Slice(text, start, end) == SubSeq(text, start + 1, end)

Min(a, b) == IF a <= b THEN a ELSE b

\* A local binding: body(value), value evaluated once.
With(value, body(_)) == body(value)

RECURSIVE SelectSeq2(_, _, _)
\* The list comprehension / loop with a condition: the elements of s that
\* satisfy Keep, in order.
SelectSeq2(s, Keep(_), i) ==
    IF i > Len(s) THEN <<>>
    ELSE (IF Keep(s[i]) THEN <<s[i]>> ELSE <<>>) \o SelectSeq2(s, Keep, i + 1)

\* The passes of the while loop of chunk_text from offset start on: the
\* window [start, end) of each pass.  The list ends where the loop is left
\* (the while condition fails or the break is taken), and also at a pass
\* whose next start, end - overlap, is not greater than its start: the next
\* start is monotone in the start, so from such a pass on the start never
\* grows, the break is never reached and the loop runs forever.
RECURSIVE ChunkWindows(_, _, _, _)
ChunkWindows(text, chunk_size, overlap, start) ==
    IF ~(start < Len(text)) THEN <<>>
    ELSE With(Min(start + chunk_size, Len(text)), LAMBDA end :
             <<[start |-> start, end |-> end]>>
             \o (IF end = Len(text) \/ end - overlap <= start THEN <<>>
                 ELSE ChunkWindows(text, chunk_size, overlap, end - overlap)))

\* The while loop of chunk_text never ends: its last listed pass neither
\* breaks nor moves the start forward.
LoopsForever(text, windows, overlap) ==
    /\ windows # <<>>
    /\ windows[Len(windows)].end # Len(text)
    /\ windows[Len(windows)].end - overlap <= windows[Len(windows)].start

\* The while loop of chunk_text: the chunks produced from offset start on.
ChunkLoop(text, chunk_size, overlap, start) ==
    With(ChunkWindows(text, chunk_size, overlap, start), LAMBDA windows :
        [i \in 1..Len(windows) |-> Strip(Slice(text, windows[i].start, windows[i].end))])

\* VectorStoreService.chunk_text: the list it returns (for a loop that
\* never ends, the chunks appended up to the pass where that shows).
chunk_text(text, chunk_size, overlap) ==
    IF Len(text) <= chunk_size THEN <<text>>
    ELSE ChunkLoop(text, chunk_size, overlap, 0)

\* Whether the call chunk_text(text, chunk_size, overlap) returns.
chunk_text_returns(text, chunk_size, overlap) ==
    \/ Len(text) <= chunk_size
    \/ ~LoopsForever(text, ChunkWindows(text, chunk_size, overlap, 0), overlap)

(***************************************************************************)
(* PDFProcessingService._create_content_chunks.  chunk_size and            *)
(* chunk_overlap are the attributes __init__ sets to PdfChunkSize and      *)
(* PdfChunkOverlap.                                                        *)
(***************************************************************************)
PdfChunkSize == 500
PdfChunkOverlap == 100
\* The factor 0.8 of the word-boundary test, in tenths.
SnapTenths == 8

\* str.rfind(' '): the 0-based index of the last space, -1 without one.
RFindSpace(s) ==
    IF \E i \in 1..Len(s) : s[i] = " "
    THEN (CHOOSE i \in 1..Len(s) : s[i] = " " /\ \A j \in (i + 1)..Len(s) : s[j] # " ") - 1
    ELSE -1

\* The window end that lengthens instead of shortening: one character past
\* the window.
SnappedEndForward(content, chunk_size, start_idx) ==
    Min(start_idx + chunk_size + 1, Len(content))

\* end_idx of a pass after the word-boundary step: the window end, or the
\* last space of the window when the window stops inside the content, does
\* not end with a space and last_space > start_idx + chunk_size * 0.8.
SnappedEnd(content, chunk_size, start_idx) ==
    With(Min(start_idx + chunk_size, Len(content)), LAMBDA end_idx :
    With(Slice(content, start_idx, end_idx), LAMBDA chunk_content :
        IF /\ end_idx < Len(content)
           /\ chunk_content[Len(chunk_content)] # " "
           /\ 10 * RFindSpace(chunk_content) > 10 * start_idx + SnapTenths * chunk_size
        THEN start_idx + RFindSpace(chunk_content)
        ELSE end_idx))

\* The next start that leaves a gap: one character past end_idx.
NextStartSkipping(end_idx, chunk_overlap) == end_idx + 1

\* start_idx of the next pass: end_idx - chunk_overlap, or end_idx when that
\* is negative.
NextStart(end_idx, chunk_overlap) ==
    IF end_idx - chunk_overlap < 0 THEN end_idx ELSE end_idx - chunk_overlap

\* The passes of the while loop from start_idx on, after the passes that
\* started at the offsets of seen: the window [start, end) of each pass.
\* The list ends where the loop is left (while condition or break), and
\* also at a pass whose next start is the start of a listed pass: the loop
\* then repeats from there forever.
RECURSIVE PdfPasses(_, _, _, _, _)
PdfPasses(content, chunk_size, chunk_overlap, start_idx, seen) ==
    IF ~(start_idx < Len(content)) THEN <<>>
    ELSE With(SnappedEnd(content, chunk_size, start_idx), LAMBDA end_idx :
             <<[start |-> start_idx, end |-> end_idx]>>
             \o (IF end_idx >= Len(content) THEN <<>>
                 ELSE IF NextStart(end_idx, chunk_overlap) \in seen \cup {start_idx}
                 THEN <<>>
                 ELSE PdfPasses(content, chunk_size, chunk_overlap,
                                NextStart(end_idx, chunk_overlap), seen \cup {start_idx})))

\* The while loop of _create_content_chunks never ends: after its last
\* listed pass it goes back to the start of a listed pass.
PdfLoopsForever(content, passes, chunk_overlap) ==
    /\ passes # <<>>
    /\ passes[Len(passes)].end < Len(content)
    /\ \E i \in 1..Len(passes) :
           passes[i].start = NextStart(passes[Len(passes)].end, chunk_overlap)

\* The ContentChunk list of the passes: the stripped window of each pass
\* whose stripped window is not empty, numbered in order.
PdfChunksOf(content, passes) ==
    With(SelectSeq2([i \in 1..Len(passes) |->
                        Strip(Slice(content, passes[i].start, passes[i].end))],
                    LAMBDA chunk_content : chunk_content # <<>>, 1),
         LAMBDA kept :
             [i \in 1..Len(kept) |->
                 [chunk_id |-> <<"chunk", i - 1>>, content |-> kept[i],
                  chunk_index |-> i - 1]])

\* PDFProcessingService._create_content_chunks: the list it returns (for a
\* loop that never ends, the chunks appended up to the pass where that
\* shows).
_create_content_chunks(content, chunk_size, chunk_overlap) ==
    IF Strip(content) = <<>> THEN <<>>
    ELSE PdfChunksOf(content, PdfPasses(content, chunk_size, chunk_overlap, 0, {}))

\* Whether the call _create_content_chunks(content) returns.
_create_content_chunks_returns(content, chunk_size, chunk_overlap) ==
    \/ Strip(content) = <<>>
    \/ ~PdfLoopsForever(content, PdfPasses(content, chunk_size, chunk_overlap, 0, {}),
                        chunk_overlap)

(***************************************************************************)
(* Embedding (EmbeddingService).  The sentence-transformer is an external  *)
(* deterministic function of the text; here a vector of Dim small          *)
(* integers computed from the text's length and first character.           *)
(***************************************************************************)
CharCode(c) == CASE c = "a" -> 1 [] c = "b" -> 2 [] OTHER -> 0

Embed(text) ==
    [i \in 1..Dim |->
        IF text = <<>> THEN 0 ELSE (Len(text) * i + CharCode(text[1])) % 3]

\* EmbeddingService.encode_text: np.array([]) (here <<>>) when the model is
\* missing or model.encode raises.
encode_text(model, texts, encode_raises) ==
    IF ~model THEN <<>>
    ELSE IF encode_raises THEN <<>>
    ELSE [i \in 1..Len(texts) |-> Embed(texts[i])]

\* EmbeddingService.encode_single: indexing the empty array with [0] raises.
encode_single(model, text, encode_raises) ==
    IF ~model THEN [raised |-> FALSE, value |-> <<>>]
    ELSE With(encode_text(model, <<text>>, encode_raises), LAMBDA e :
             IF Len(e) = 0 THEN [raised |-> TRUE, value |-> <<>>]
             ELSE [raised |-> FALSE, value |-> e[1]])

(***************************************************************************)
(* FAISSVectorStore.  A store is [has_index, vectors, metadata]: has_index *)
(* is "self.index is not None", vectors the rows of the IndexFlatL2 (row h *)
(* is vectors[h+1]) and metadata the dict.  A dict key is <<"int", n>> or  *)
(* <<"str", n>> (the decimal string of n): json.dump writes every key as a *)
(* string and json.load returns string keys.                               *)
(***************************************************************************)
IntKey(n) == <<"int", n>>
StrKey(n) == <<"str", n>>

NoStore == [has_index |-> FALSE, vectors |-> <<>>, metadata |-> <<>>]

NoFiles ==
    [index_file    |-> [exists |-> FALSE, vectors |-> <<>>],
     metadata_file |-> [exists |-> FALSE, data |-> <<>>]]

\* json.dump(self.metadata) followed by json.load: what the metadata file
\* holds.  An int key and the string key of the same number are written as
\* the same string; the later one (the int key, added after a load) wins.
JsonRoundTrip(metadata) ==
    [key \in {StrKey(k[2]) : k \in DOMAIN metadata} |->
        IF IntKey(key[2]) \in DOMAIN metadata
        THEN metadata[IntKey(key[2])]
        ELSE metadata[StrKey(key[2])]]

\* FAISSVectorStore.__init__ / _initialize_index
_initialize_index(d, vector_db_available) ==
    IF ~vector_db_available THEN NoStore
    ELSE IF d.index_file.exists
    THEN [has_index |-> TRUE,
          vectors   |-> d.index_file.vectors,
          metadata  |-> IF d.metadata_file.exists
                        THEN d.metadata_file.data ELSE <<>>]
    ELSE [has_index |-> TRUE, vectors |-> <<>>, metadata |-> <<>>]

\* FAISSVectorStore._save_index; save_fault is "none", "index_write" (the
\* write of the .index file raises) or "metadata_write" (the .index file is
\* written and the write of the .metadata file raises).
_save_index(store, d, save_fault) ==
    IF save_fault = "index_write" THEN d
    ELSE [index_file    |-> [exists |-> TRUE, vectors |-> store.vectors],
          metadata_file |-> IF save_fault = "metadata_write"
                            THEN d.metadata_file
                            ELSE [exists |-> TRUE,
                                  data |-> JsonRoundTrip(store.metadata)]]

\* The dict entries add_documents writes: keys start_id .. start_id+n-1.
NewEntries(start_id, chunks) ==
    [key \in {IntKey(start_id + i - 1) : i \in 1..Len(chunks)} |->
        chunks[key[2] - start_id + 1]]

\* FAISSVectorStore.add_documents: the store and the files afterwards.
\* add_raises: index.add raises (nothing is added, the except logs).
add_documents(store, d, chunks, embeddings, add_raises, save_fault) ==
    IF ~store.has_index THEN [store |-> store, disk |-> d]
    ELSE IF add_raises THEN [store |-> store, disk |-> d]
    ELSE With([has_index |-> TRUE,
               vectors   |-> store.vectors \o embeddings,
               metadata  |-> NewEntries(Cardinality(DOMAIN store.metadata), chunks)
                             @@ store.metadata],
              LAMBDA after :
                  [store |-> after, disk |-> _save_index(after, d, save_fault)])

\* Squared Euclidean distance (IndexFlatL2).
RECURSIVE SqDist(_, _, _)
SqDist(u, v, i) ==
    IF i = 0 THEN 0 ELSE (u[i] - v[i]) * (u[i] - v[i]) + SqDist(u, v, i - 1)

L2(u, v) == SqDist(u, v, Dim)

\* The order in which index.search returns rows at equal distance is not
\* fixed by FAISS's interface: it is whatever the build's top-k selection
\* gives.
TieOrders == {"lower_row_first", "higher_row_first"}

\* index.search(q, k): the rows ordered by distance, nearest first (equal
\* distances: in the build's tie order), cut to k; the -1 padding of the
\* missing places is dropped (no dict has the key -1).
FaissSearch(vectors, q, k, ties) ==
    With([i \in 1..Len(vectors) |-> L2(vectors[i], q)], LAMBDA dist :
        With([i \in 1..Len(vectors) |->
                 Cardinality({j \in 1..Len(vectors) :
                     \/ dist[j] < dist[i]
                     \/ /\ dist[j] = dist[i]
                        /\ IF ties = "lower_row_first" THEN j < i ELSE j > i})],
             LAMBDA rank :
                 [r \in 1..Min(k, Len(vectors)) |->
                     With(CHOOSE i \in 1..Len(vectors) : rank[i] = r - 1, LAMBDA i :
                         [score |-> dist[i], idx |-> i - 1])]))

\* "idx in self.metadata": idx is a number, so only int keys match.
HasHandle(metadata, idx) == IntKey(idx) \in DOMAIN metadata

SearchResultOf(meta, score) ==
    [content      |-> meta.content,
     metadata     |-> meta.metadata,
     score        |-> score,
     source_file  |-> meta.source_file,
     course_id    |-> meta.course_id,
     chapter_name |-> meta.chapter_name]

\* FAISSVectorStore.search
search(store, query_embedding, k, ties) ==
    IF ~store.has_index \/ Len(store.vectors) = 0 THEN <<>>
    ELSE With(SelectSeq2(FaissSearch(store.vectors, query_embedding, k, ties),
                         LAMBDA hit : HasHandle(store.metadata, hit.idx), 1),
              LAMBDA kept :
                  [i \in 1..Len(kept) |->
                      SearchResultOf(store.metadata[IntKey(kept[i].idx)],
                                     kept[i].score)])

(***************************************************************************)
(* VectorStoreService.  A service is [model, vector_store]: model is       *)
(* "embedding_service.model is not None".  An Optional[int] is the set of  *)
(* its values: {} is None and {c} is the integer c.                        *)
(***************************************************************************)
None == {}
Some(c) == {c}

\* Python truthiness of an Optional[int] ("if course_id:").
Truthy(opt) == opt # None /\ opt # Some(0)

\* VectorStoreService.__init__
NewVectorStoreService(d, e) ==
    [model        |-> e.embedding_available,
     faiss_ties   |-> e.faiss_ties,
     vector_store |-> _initialize_index(d, e.vector_db_available)]

\* The DocumentChunk list index_document builds (request metadata {}).
DocChunks(content, source_file, course_id, chapter_name) ==
    With(chunk_text(content, DefaultChunkSize, DefaultOverlap), LAMBDA chunks :
        [i \in 1..Len(chunks) |->
            [content      |-> chunks[i],
             metadata     |-> [chunk_index |-> i - 1, total_chunks |-> Len(chunks)],
             chunk_id     |-> <<source_file, i - 1>>,
             source_file  |-> source_file,
             course_id    |-> course_id,
             chapter_name |-> chapter_name]])

\* VectorStoreService.index_document: the returned bool, the service's
\* store and the files afterwards.
index_document(vs, d, content, source_file, course_id, chapter_name, encode_raises, add_raises, save_fault) ==
    With(DocChunks(content, source_file, course_id, chapter_name), LAMBDA doc_chunks :
    With(encode_text(vs.model, [i \in 1..Len(doc_chunks) |-> doc_chunks[i].content],
                     encode_raises), LAMBDA embeddings :
        IF Len(embeddings) = 0
        THEN [success |-> FALSE, store |-> vs.vector_store, disk |-> d]
        ELSE With(add_documents(vs.vector_store, d, doc_chunks, embeddings,
                                add_raises, save_fault), LAMBDA added :
                 [success |-> TRUE, store |-> added.store, disk |-> added.disk])))

Take(s, k) == SubSeq(s, 1, Min(k, Len(s)))

\* search_documents without the check of the query embedding: a query that
\* could not be embedded is searched as the zero vector.
search_documents_unchecked(vs, query, course_id, k, encode_raises) ==
    With(encode_single(vs.model, query, encode_raises), LAMBDA query_embedding :
        Take(search(vs.vector_store,
                    IF Len(query_embedding.value) = 0 THEN [i \in 1..Dim |-> 0]
                    ELSE query_embedding.value,
                    k * OverfetchFactor, vs.faiss_ties), k))

\* VectorStoreService.search_documents
search_documents(vs, query, course_id, k, encode_raises) ==
    With(encode_single(vs.model, query, encode_raises), LAMBDA query_embedding :
        IF query_embedding.raised THEN <<>>
        ELSE IF Len(query_embedding.value) = 0 THEN <<>>
        ELSE With(search(vs.vector_store, query_embedding.value, k * OverfetchFactor,
                         vs.faiss_ties),
                  LAMBDA results :
                      Take(IF Truthy(course_id)
                           THEN SelectSeq2(results,
                                           LAMBDA r : Some(r.course_id) = course_id, 1)
                           ELSE results,
                           k)))

\* The methods class VectorStoreService defines.
VectorStoreServiceMethods ==
    {"chunk_text", "index_document", "search_documents", "get_statistics"}

\* PDFProcessingService._store_in_vector_db: the bool it returns.  It calls
\* vector_service.index_document_with_chunks; when the attribute lookup
\* raises, the inner except returns True ("continuing without indexing"),
\* otherwise the call's own result is returned.
_store_in_vector_db(call_result) ==
    IF "index_document_with_chunks" \notin VectorStoreServiceMethods
    THEN TRUE
    ELSE call_result

(***************************************************************************)
(* ChatbotService.  An answer text is a record naming the template and the *)
(* values substituted into it.                                             *)
(***************************************************************************)
MockExcerptLen == 200

AnswerText(kind, chapter_name, excerpt, question) ==
    [kind |-> kind, chapter_name |-> chapter_name, excerpt |-> excerpt,
     question |-> question]

\* The fixed text of _generate_mock_response for no search results.
NoMaterialAnswer == AnswerText("no_material", "", <<>>, <<>>)
\* The fixed text of the except branch of process_message.
ErrorAnswer == AnswerText("error", "", <<>>, <<>>)
\* response.choices[0].message.content of the Groq call: a text, or None.
LlmAnswer == AnswerText("llm", "", <<>>, <<>>)
NoneAnswer == AnswerText("None", "", <<>>, <<>>)

\* ChatbotService._generate_mock_response
_generate_mock_response(search_results, user_message) ==
    IF Len(search_results) = 0 THEN NoMaterialAnswer
    ELSE LET primary_source == search_results[1]
         IN  AnswerText("mock", primary_source.chapter_name,
                        Take(primary_source.content, MockExcerptLen),
                        user_message)

RECURSIVE SumOver(_, _, _)
SumOver(s, F(_), i) ==
    IF i > Len(s) THEN 0 ELSE F(s[i]) + SumOver(s, F, i + 1)

\* _calculate_confidence without the cap of its last line.
_calculate_confidence_uncapped(search_results) ==
    IF Len(search_results) = 0 THEN 100
    ELSE LET num_results == Len(search_results)
             Closeness(r) == 1000 \div (1 + r.score)
             Length(r) == Len(r.content)
             avg_score == SumOver(search_results, Closeness, 1) \div num_results
             content_quality == Min(SumOver(search_results, Length, 1), 1000)
             diversity == Min((num_results * 1000) \div 3, 1000)
         IN  (avg_score * 4 + content_quality * 3 + diversity * 3) \div 10

\* ChatbotService._calculate_confidence, in thousandths (0.1 is 100, the
\* cap 0.95 is 950); divisions round down.
_calculate_confidence(search_results) ==
    IF Len(search_results) = 0 THEN 100
    ELSE LET num_results == Len(search_results)
             Closeness(r) == 1000 \div (1 + r.score)
             Length(r) == Len(r.content)
             avg_score == SumOver(search_results, Closeness, 1) \div num_results
             content_quality == Min(SumOver(search_results, Length, 1), 1000)
             diversity == Min((num_results * 1000) \div 3, 1000)
             confidence == (avg_score * 4 + content_quality * 3 + diversity * 3) \div 10
         IN  Min(confidence, 950)

\* The Groq client is used when it exists and its key is not the placeholder.
UsesLlm(llm_client) == ~(llm_client = "none" \/ llm_client = "placeholder")

\* ChatSession(..., messages=[], created_at=now, updated_at=now).  A
\* datetime is the integer the clock showed.
NewSession(session_id, student_id, course_id, now) ==
    [session_id |-> session_id, student_id |-> student_id,
     course_id |-> course_id, messages |-> <<>>,
     created_at |-> now, updated_at |-> now]

NewMessage(session_id, n, content, role, now) ==
    [message_id |-> <<session_id, n>>, content |-> content, role |-> role,
     timestamp |-> now]

\* ChatbotService._update_chat_session: whether it raised and the session
\* store afterwards.  create_raises: building the ChatSession raises.  A
\* None ai_response fails ChatMessage's validation of content: str, after
\* the user message was appended.  now: the one datetime.now() it reads.
_update_chat_session(active_sessions, session_id, student_id, course_id, user_message, ai_response, create_raises, now) ==
    IF session_id \notin DOMAIN active_sessions /\ create_raises
    THEN [raised |-> TRUE, active_sessions |-> active_sessions]
    ELSE LET known == IF session_id \in DOMAIN active_sessions
                      THEN active_sessions
                      ELSE (session_id :> NewSession(session_id, student_id, course_id, now))
                           @@ active_sessions
             session == known[session_id]
             user_msg == NewMessage(session_id, Len(session.messages),
                                    user_message, "user", now)
             with_user == Append(session.messages, user_msg)
             ai_msg == NewMessage(session_id, Len(with_user), ai_response, "assistant",
                                  now)
         IN  IF ai_response = NoneAnswer
             THEN [raised |-> TRUE,
                   active_sessions |->
                       [known EXCEPT ![session_id].messages = with_user]]
             ELSE [raised |-> FALSE,
                   active_sessions |->
                       [known EXCEPT ![session_id].messages = Append(with_user, ai_msg),
                                     ![session_id].updated_at = now]]

\* ChatbotService.get_chat_history: active_sessions.get(session_id), the
\* session or None.
get_chat_history(cs, session_id) ==
    IF session_id \in DOMAIN cs.active_sessions
    THEN Some(cs.active_sessions[session_id])
    ELSE None

RAGResponse(answer, sources, confidence) ==
    [answer |-> answer, sources |-> sources, confidence |-> confidence]

\* Step 3 of process_message: the answer text.  llm_outcome is what the
\* Groq call does when it is made: "text", "None" (a completion without
\* content) or "raises".
AiResponse(llm_client, search_results, user_message, llm_outcome) ==
    IF ~UsesLlm(llm_client) THEN _generate_mock_response(search_results, user_message)
    ELSE IF llm_outcome = "raises"
    THEN _generate_mock_response(search_results, user_message)
    ELSE IF llm_outcome = "None" THEN NoneAnswer
    ELSE LlmAnswer

\* The try block of process_message: what was computed, whether the block
\* raised (only step 5 can), and the session store afterwards.
ProcessMessageTry(cs, session_id, user_message, student_id, course_id, encode_raises, llm_outcome, create_raises, now) ==
    With(search_documents(cs.vector_service, user_message, course_id, ChatTopK,
                          encode_raises), LAMBDA search_results :
    With(AiResponse(cs.llm_client, search_results, user_message, llm_outcome),
         LAMBDA ai_response :
    With(_update_chat_session(cs.active_sessions, session_id, student_id, course_id,
                              user_message, ai_response, create_raises, now),
         LAMBDA recorded :
             [raised          |-> recorded.raised,
              llm_called      |-> UsesLlm(cs.llm_client),
              generated       |-> RAGResponse(ai_response, search_results,
                                              _calculate_confidence(search_results)),
              active_sessions |-> recorded.active_sessions])))

\* The except branch of process_message: the error response.
ErrorResponse == RAGResponse(ErrorAnswer, <<>>, 0)

\* process_message without its except branch: the exception of the try block
\* leaves the method.
Uncaught(t) ==
    [outcome         |-> IF t.raised THEN "raised" ELSE "returned",
     response        |-> t.generated,
     try             |-> t,
     active_sessions |-> t.active_sessions]

\* try/except of process_message: the exception of the try block is caught
\* and answered with the error response.
Caught(t) ==
    [outcome         |-> "returned",
     response        |-> IF t.raised THEN ErrorResponse ELSE t.generated,
     try             |-> t,
     active_sessions |-> t.active_sessions]

\* ChatbotService.process_message: outcome "returned" with the response, or
\* "raised" when an exception leaves the method.
process_message(cs, session_id, user_message, student_id, course_id, encode_raises, llm_outcome, create_raises, now) ==
    Caught(ProcessMessageTry(cs, session_id, user_message, student_id, course_id,
                             encode_raises, llm_outcome, create_raises, now))

(***************************************************************************)
(* Inputs.                                                                 *)
(***************************************************************************)
EmptyText == <<>>
ShortText == <<"a", "b">>
\* A text longer than the chunk size: two chunks.
LongText == [i \in 1..(DefaultChunkSize + 20) |-> IF i % 5 = 0 THEN " " ELSE "b"]

Contents == {EmptyText, ShortText, LongText}
Queries == {<<"a">>, <<"b", "a">>}
CourseIds == 0..MaxCourse
OptCourseIds == {None} \cup {Some(c) : c \in CourseIds}
SourceFiles == {"a.pdf"}
Chapters == {"ch1"}
SessionIds == {"s1"}
StudentIds == {1, 2}
SaveFaults == {"none", "index_write", "metadata_write"}
LlmOutcomes == {"text", "None", "raises"}

(***************************************************************************)
(* State.  env: what the process finds installed (the two import guards    *)
(* and the Groq key).  disk: the .index and .metadata files.               *)
(* vector_service: the module-level instance of vector_service.py.         *)
(* chatbot_service: the module-level ChatbotService, with its own          *)
(* VectorStoreService.  resp: the last call, its arguments, the faults it  *)
(* met and what it returned.                                               *)
(***************************************************************************)
Init ==
    /\ env \in [vector_db_available : BOOLEAN,
                embedding_available : BOOLEAN,
                llm_client : {"none", "placeholder", "real"},
                faiss_ties : TieOrders]
    /\ disk = NoFiles
    /\ vector_service = NewVectorStoreService(disk, env)
    /\ chatbot_service = [llm_client      |-> env.llm_client,
                          vector_service  |-> NewVectorStoreService(disk, env),
                          active_sessions |-> <<>>]
    /\ resp = [op |-> "start"]

\* The windows self.chunk_text(content), called by index_document with its
\* defaults, cuts: none when it returns the text itself.
IndexWindows(content) ==
    IF Len(content) <= DefaultChunkSize THEN <<>>
    ELSE ChunkWindows(content, DefaultChunkSize, DefaultOverlap, 0)

\* POST /index-document: vector_service.index_document on the module-level
\* instance; True is answered 200, False 500.
IndexDocument(content, source_file, course_id, chapter_name, encode_raises, add_raises, save_fault) ==
    \E r \in {index_document(vector_service, disk, content, source_file, course_id,
                            chapter_name, encode_raises, add_raises, save_fault)} :
        /\ vector_service' = [vector_service EXCEPT !.vector_store = r.store]
        /\ disk' = r.disk
        /\ resp' = [op            |-> "index_document",
                    content       |-> content,
                    source_file   |-> source_file,
                    course_id     |-> course_id,
                    chapter_name  |-> chapter_name,
                    windows       |-> IndexWindows(content),
                    encode_failed |-> ~vector_service.model \/ encode_raises,
                    rows_before   |-> Len(vector_service.vector_store.vectors),
                    keys_before   |-> Cardinality(DOMAIN vector_service.vector_store.metadata),
                    had_index     |-> vector_service.vector_store.has_index,
                    add_raised    |-> add_raises,
                    save_fault    |-> save_fault,
                    success       |-> r.success,
                    status        |-> IF r.success THEN 200 ELSE 500]
        /\ UNCHANGED <<env, chatbot_service>>

\* process_pdf: self._create_content_chunks(content) with the service's
\* chunk_size and chunk_overlap, then _store_in_vector_db with these chunks.
StoreInVectorDb(content, course_id, chapter_name) ==
    /\ resp' = [op           |-> "_store_in_vector_db",
                content      |-> content,
                course_id    |-> course_id,
                chapter_name |-> chapter_name,
                windows      |-> PdfPasses(content, PdfChunkSize, PdfChunkOverlap, 0, {}),
                rows_before  |-> Len(vector_service.vector_store.vectors),
                success      |-> _store_in_vector_db(FALSE)]
    /\ UNCHANGED <<env, disk, vector_service, chatbot_service>>

\* GET /search: vector_service.search_documents on the module-level instance.
SearchDocuments(query, course_id, k, encode_raises) ==
    /\ resp' = [op        |-> "search_documents",
                query     |-> query,
                course_id |-> course_id,
                k         |-> k,
                encode_failed |-> ~vector_service.model \/ encode_raises,
                had_index |-> vector_service.vector_store.has_index,
                rows      |-> Len(vector_service.vector_store.vectors),
                results   |-> search_documents(vector_service, query, course_id, k,
                                               encode_raises)]
    /\ UNCHANGED <<env, disk, vector_service, chatbot_service>>

RECURSIVE SumLens(_, _)
SumLens(active_sessions, ids) ==
    IF ids = {} THEN 0
    ELSE With(CHOOSE x \in ids : TRUE, LAMBDA x :
             Len(active_sessions[x].messages) + SumLens(active_sessions, ids \ {x}))

\* The number of messages in the session store.
Turns(active_sessions) == SumLens(active_sessions, DOMAIN active_sessions)

\* chatbot_service.process_message (POST /ask with a session id).
ProcessMessage(session_id, user_message, student_id, course_id, encode_raises, llm_outcome, create_raises, now) ==
    \E r \in {process_message(chatbot_service, session_id, user_message, student_id,
                             course_id, encode_raises, llm_outcome, create_raises,
                             now)} :
        /\ chatbot_service' = [chatbot_service EXCEPT !.active_sessions = r.active_sessions]
        /\ resp' = [op            |-> "process_message",
                    session_id    |-> session_id,
                    user_message  |-> user_message,
                    student_id    |-> student_id,
                    course_id     |-> course_id,
                    now           |-> now,
                    encode_failed |-> ~chatbot_service.vector_service.model \/ encode_raises,
                    llm_called    |-> r.try.llm_called,
                    llm_failed    |-> ~r.try.llm_called \/ llm_outcome # "text",
                    llm_raised    |-> r.try.llm_called /\ llm_outcome = "raises",
                    record_raised |-> r.try.raised,
                    generated     |-> r.try.generated,
                    outcome       |-> r.outcome,
                    response      |-> r.response]
        /\ UNCHANGED <<env, disk, vector_service>>

\* chatbot_service.start_new_session: uuid4 gives an id not in use.
StartNewSession(session_id, student_id, course_id, now) ==
    /\ session_id \notin DOMAIN chatbot_service.active_sessions
    /\ chatbot_service' =
           [chatbot_service EXCEPT !.active_sessions =
               (session_id :> NewSession(session_id, student_id, course_id, now)) @@ @]
    /\ resp' = [op |-> "start_new_session", session_id |-> session_id,
                student_id |-> student_id, course_id |-> course_id, now |-> now]
    /\ UNCHANGED <<env, disk, vector_service>>

\* The process ends and starts again: both modules are imported afresh, each
\* store loads the files, and the in-memory session store starts empty.
Restart ==
    /\ vector_service' = NewVectorStoreService(disk, env)
    /\ chatbot_service' = [llm_client      |-> env.llm_client,
                           vector_service  |-> NewVectorStoreService(disk, env),
                           active_sessions |-> <<>>]
    /\ resp' = [op |-> "restart"]
    /\ UNCHANGED <<env, disk>>

\* POST /index-document with a fault drawn only where the code reaches the
\* faulting call, while the store holds at most max_rows rows afterwards.
IndexDocumentCall(contents, course_ids, save_faults, max_rows) ==
    \E content \in contents, source_file \in SourceFiles, course_id \in course_ids,
       chapter_name \in Chapters, encode_raises \in BOOLEAN, add_raises \in BOOLEAN,
       save_fault \in save_faults :
       /\ encode_raises => vector_service.model
       /\ add_raises =>
              vector_service.model /\ ~encode_raises
              /\ vector_service.vector_store.has_index
       /\ save_fault # "none" =>
              vector_service.model /\ ~encode_raises /\ ~add_raises
              /\ vector_service.vector_store.has_index
       /\ Len(index_document(vector_service, disk, content, source_file, course_id,
                             chapter_name, encode_raises, add_raises,
                             save_fault).store.vectors) <= max_rows
       /\ IndexDocument(content, source_file, course_id, chapter_name,
                        encode_raises, add_raises, save_fault)

StoreInVectorDbCall(contents, course_ids) ==
    \E content \in contents, course_id \in course_ids, chapter_name \in Chapters :
       StoreInVectorDb(content, course_id, chapter_name)

SearchDocumentsCall(max_k) ==
    \E query \in Queries, course_id \in OptCourseIds, k \in 1..max_k,
       encode_raises \in BOOLEAN :
       /\ encode_raises => vector_service.model
       /\ SearchDocuments(query, course_id, k, encode_raises)

\* The latest datetime the session store holds (0 when it holds none).
LatestTime(active_sessions) ==
    With({0} \cup {active_sessions[x].updated_at : x \in DOMAIN active_sessions}
             \cup {active_sessions[x].created_at : x \in DOMAIN active_sessions},
         LAMBDA seen : CHOOSE t \in seen : \A u \in seen : u <= t)

\* POST /ask with a session id, while the store holds fewer than max_turns
\* turns.  datetime.now() is the wall clock: a read (drawn from times) is
\* not earlier than the datetimes already stored, and may equal them.
ProcessMessageCall(student_ids, opt_course_ids, max_turns, times) ==
    \E session_id \in SessionIds, user_message \in Queries, student_id \in student_ids,
       course_id \in opt_course_ids, encode_raises \in BOOLEAN,
       llm_outcome \in LlmOutcomes, create_raises \in BOOLEAN, now \in times :
       /\ encode_raises => chatbot_service.vector_service.model
       /\ llm_outcome # "text" => UsesLlm(chatbot_service.llm_client)
       /\ create_raises => session_id \notin DOMAIN chatbot_service.active_sessions
       /\ Turns(chatbot_service.active_sessions) < 2 * max_turns
       /\ now >= LatestTime(chatbot_service.active_sessions)
       /\ ProcessMessage(session_id, user_message, student_id, course_id,
                         encode_raises, llm_outcome, create_raises, now)

StartNewSessionCall(student_ids, opt_course_ids, times) ==
    \E session_id \in SessionIds, student_id \in student_ids,
       course_id \in opt_course_ids, now \in times :
       /\ now >= LatestTime(chatbot_service.active_sessions)
       /\ StartNewSession(session_id, student_id, course_id, now)

\* The clock of a specification in which time plays no part.
Epoch == {0}

(***************************************************************************)
(* Spec: the whole process, every handler, with one student, the one-chunk *)
(* document of course MaxCourse and saves that succeed.                    *)
(***************************************************************************)
OneContent == {ShortText}
OneCourse == {MaxCourse}
OneStudent == {CHOOSE student_id \in StudentIds : TRUE}

Next ==
    \/ IndexDocumentCall(OneContent, OneCourse, {"none"}, MaxRows)
    \/ StoreInVectorDbCall(OneContent, OneCourse)
    \/ SearchDocumentsCall(MaxK)
    \/ ProcessMessageCall(OneStudent, OptCourseIds, MaxTurns, Epoch)
    \/ StartNewSessionCall(OneStudent, OptCourseIds, Epoch)
    \/ Restart

Spec == Init /\ [][Next]_vars

(***************************************************************************)
(* SpecIndex: the vector store, its files and the module-level             *)
(* vector_service under every document of Contents and every save fault,   *)
(* without the chat handlers (the Groq client plays no part).              *)
(***************************************************************************)
InitIndex == Init /\ env.llm_client = "none"

NextIndex ==
    \/ IndexDocumentCall(Contents, CourseIds, SaveFaults, MaxRows)
    \/ StoreInVectorDbCall(Contents, CourseIds)
    \/ SearchDocumentsCall(MaxK)
    \/ Restart

SpecIndex == InitIndex /\ [][NextIndex]_vars

(***************************************************************************)
(* SpecSearch: ingestion into the module-level store and retrieval from    *)
(* it, in one process, with documents of one course, saves that succeed,   *)
(* one more row and one more requested result than in Spec, under either   *)
(* tie order of the FAISS build.                                           *)
(***************************************************************************)
NextSearch ==
    \/ IndexDocumentCall(Contents, OneCourse, {"none"}, MaxRows + 1)
    \/ SearchDocumentsCall(MaxK + 1)

SpecSearch == InitIndex /\ [][NextSearch]_vars

(***************************************************************************)
(* SpecChat: the chat handlers, for one student, of a process that starts  *)
(* on the files an earlier run of the process left: none, or those of one  *)
(* ingested document whose save succeeded or failed at the metadata file.  *)
(***************************************************************************)
\* (The tie order plays no part where AllAvailable is used: no search runs.)
AllAvailable ==
    [vector_db_available |-> TRUE, embedding_available |-> TRUE, llm_client |-> "none",
     faiss_ties |-> "lower_row_first"]

FilesAfter(save_fault) ==
    index_document(NewVectorStoreService(NoFiles, AllAvailable), NoFiles, ShortText,
                   CHOOSE f \in SourceFiles : TRUE, MaxCourse,
                   CHOOSE c \in Chapters : TRUE, FALSE, FALSE, save_fault).disk

EarlierFiles == {NoFiles} \cup {FilesAfter(save_fault) : save_fault \in SaveFaults}

InitChat ==
    /\ env \in [vector_db_available : BOOLEAN,
                embedding_available : BOOLEAN,
                llm_client : {"none", "placeholder", "real"},
                faiss_ties : TieOrders]
    /\ disk \in EarlierFiles
    /\ disk # NoFiles => env.vector_db_available /\ env.embedding_available
    /\ vector_service = NewVectorStoreService(disk, env)
    /\ chatbot_service = [llm_client      |-> env.llm_client,
                          vector_service  |-> NewVectorStoreService(disk, env),
                          active_sessions |-> <<>>]
    /\ resp = [op |-> "start"]

NextChat ==
    \/ ProcessMessageCall(OneStudent, OptCourseIds, MaxTurns, Epoch)
    \/ StartNewSessionCall(OneStudent, OptCourseIds, Epoch)
    \/ Restart

SpecChat == InitChat /\ [][NextChat]_vars

(***************************************************************************)
(* SpecSession: the session store under requests of every student, with    *)
(* and without a course, one more turn than in Spec, in a process without  *)
(* index and embedding model (retrieval returns nothing and plays no part  *)
(* in what the store records).  Requests that are in flight together run   *)
(* one after another in either order: the handlers are coroutines on one   *)
(* event loop and none awaits anything that suspends.                      *)
(***************************************************************************)
SessionCourses == {None, Some(MaxCourse)}

InitSession == Init /\ ~env.vector_db_available /\ ~env.embedding_available

NextSession ==
    \/ ProcessMessageCall(StudentIds, SessionCourses, MaxTurns + 1, Epoch)
    \/ StartNewSessionCall(StudentIds, SessionCourses, Epoch)

SpecSession == InitSession /\ [][NextSession]_vars

(***************************************************************************)
(* SpecClock: the session store of SpecSession under requests of one       *)
(* student without a course, with a clock that shows 0..MaxTime.           *)
(***************************************************************************)
MaxTime == 2
Times == 0..MaxTime

NextClock ==
    \/ ProcessMessageCall(OneStudent, {None}, MaxTurns + 1, Times)
    \/ StartNewSessionCall(OneStudent, {None}, Times)

SpecClock == InitSession /\ [][NextClock]_vars

(***************************************************************************)
(* SpecRequest: one process_message call followed through its external     *)
(* calls.  The embedding call (made when the model is loaded) and the      *)
(* generation call (made when a usable Groq client is configured) are      *)
(* synchronous calls made without a timeout; each either returns or never  *)
(* does.  The event loop runs the coroutine whenever it can go on (weak    *)
(* fairness of every step).                                                *)
(***************************************************************************)
InitRequest ==
    /\ env \in [vector_db_available : {TRUE},
                embedding_available : BOOLEAN,
                llm_client : {"none", "placeholder", "real"},
                faiss_ties : TieOrders]
    /\ disk = NoFiles
    /\ vector_service = NewVectorStoreService(disk, env)
    /\ chatbot_service = [llm_client      |-> env.llm_client,
                          vector_service  |-> NewVectorStoreService(disk, env),
                          active_sessions |-> <<>>]
    /\ resp \in [op : {"request"}, phase : {"STARTED"}, session_id : SessionIds,
                 user_message : Queries, student_id : OneStudent, course_id : {None},
                 encode_raises : BOOLEAN, embed_hangs : BOOLEAN,
                 llm_outcome : LlmOutcomes, llm_hangs : BOOLEAN]

\* Step 1 of process_message: search_documents, whose encode_single calls
\* model.encode when the model is loaded; the step ends when that returns.
EmbedQuery ==
    /\ resp.op = "request" /\ resp.phase = "STARTED"
    /\ chatbot_service.vector_service.model => ~resp.embed_hangs
    /\ resp' = [resp EXCEPT !.phase = "RETRIEVED"]
    /\ UNCHANGED <<env, disk, vector_service, chatbot_service>>

\* Step 3 of process_message: chat.completions.create is called when a
\* usable client is configured; the step ends when that returns or raises.
Generate ==
    /\ resp.op = "request" /\ resp.phase = "RETRIEVED"
    /\ UsesLlm(chatbot_service.llm_client) => ~resp.llm_hangs
    /\ resp' = [resp EXCEPT !.phase = "GENERATED"]
    /\ UNCHANGED <<env, disk, vector_service, chatbot_service>>

\* Steps 4 and 5 and the return: the session is updated and the response
\* handed to the caller.
Respond ==
    /\ resp.op = "request" /\ resp.phase = "GENERATED"
    /\ \E r \in {process_message(chatbot_service, resp.session_id, resp.user_message,
                                 resp.student_id, resp.course_id,
                                 resp.encode_raises /\ chatbot_service.vector_service.model,
                                 IF UsesLlm(chatbot_service.llm_client)
                                 THEN resp.llm_outcome ELSE "text",
                                 FALSE, 0)} :
           /\ chatbot_service' =
                  [chatbot_service EXCEPT !.active_sessions = r.active_sessions]
           /\ resp' = [op |-> "request", phase |-> "RESPONDED",
                       session_id |-> resp.session_id,
                       user_message |-> resp.user_message,
                       response |-> r.response]
    /\ UNCHANGED <<env, disk, vector_service>>

NextRequest == EmbedQuery \/ Generate \/ Respond

SpecRequest ==
    /\ InitRequest /\ [][NextRequest]_vars
    /\ WF_vars(EmbedQuery) /\ WF_vars(Generate) /\ WF_vars(Respond)

(***************************************************************************)
(* SpecConfidence: _calculate_confidence applied to every context of up to *)
(* ChatTopK search results whose contents are the chunks of Contents and   *)
(* whose distance scores are 0..MaxScore.                                  *)
(***************************************************************************)
MaxScore == 3

\* A process with everything installed and nothing ingested, about to make
\* the call resp describes.
InitIdle(calls) ==
    /\ env = AllAvailable
    /\ disk = NoFiles
    /\ vector_service = NewVectorStoreService(disk, env)
    /\ chatbot_service = [llm_client      |-> env.llm_client,
                          vector_service  |-> NewVectorStoreService(disk, env),
                          active_sessions |-> <<>>]
    /\ resp \in calls

\* The search results the index can return for the first chunk of a document.
ResultPool ==
    {SearchResultOf(DocChunks(content, source_file, course_id, chapter_name)[1], score) :
        content \in Contents, source_file \in SourceFiles, course_id \in OneCourse,
        chapter_name \in Chapters, score \in 0..MaxScore}

Contexts == UNION {[1..n -> ResultPool] : n \in 0..ChatTopK}

InitConfidence ==
    InitIdle([op : {"call"}, search_results : Contexts])

\* Step 4 of process_message on the context of the call.
CalculateConfidence ==
    /\ resp.op = "call"
    /\ resp' = [op             |-> "_calculate_confidence",
                search_results |-> resp.search_results,
                confidence     |-> _calculate_confidence(resp.search_results)]
    /\ UNCHANGED <<env, disk, vector_service, chatbot_service>>

NextConfidence == CalculateConfidence

SpecConfidence == InitConfidence /\ [][NextConfidence]_vars

(***************************************************************************)
(* SpecChunk: the two chunkers applied to every text of up to MaxLen       *)
(* characters with at most two spaces, under every chunk size 1..MaxSize   *)
(* and every overlap 0..MaxSize.                                           *)
(***************************************************************************)
MaxLen == 13
MaxSize == 11

\* The text of n characters with spaces at the positions of spaces.
TextWith(n, spaces) == [i \in 1..n |-> IF i \in spaces THEN " " ELSE "a"]

ChunkTexts ==
    {TextWith(n, spaces) :
        n \in 0..MaxLen, spaces \in {sp \in SUBSET (1..MaxLen) : Cardinality(sp) <= 2}}

InitChunk ==
    InitIdle([op : {"call"}, text : ChunkTexts,
              chunk_size : 1..MaxSize, overlap : 0..MaxSize])

\* vector_service.chunk_text(text, chunk_size, overlap): the passes of its
\* loop, the chunks, and whether the call returns.
ChunkText ==
    /\ resp.op = "call"
    /\ resp' = [op         |-> "chunk_text",
                text       |-> resp.text,
                chunk_size |-> resp.chunk_size,
                overlap    |-> resp.overlap,
                passes     |-> IF Len(resp.text) <= resp.chunk_size THEN <<>>
                               ELSE ChunkWindows(resp.text, resp.chunk_size,
                                                 resp.overlap, 0),
                chunks     |-> chunk_text(resp.text, resp.chunk_size, resp.overlap),
                outcome    |-> IF chunk_text_returns(resp.text, resp.chunk_size,
                                                     resp.overlap)
                               THEN "returned" ELSE "loops_forever"]
    /\ UNCHANGED <<env, disk, vector_service, chatbot_service>>

\* pdf_service._create_content_chunks(text) with the attributes chunk_size
\* and chunk_overlap set to the call's values.
CreateContentChunks ==
    /\ resp.op = "call"
    /\ \E r \in {_create_content_chunks(resp.text, resp.chunk_size, resp.overlap)} :
         resp' = [op         |-> "_create_content_chunks",
                  text       |-> resp.text,
                  chunk_size |-> resp.chunk_size,
                  overlap    |-> resp.overlap,
                  passes     |-> IF Strip(resp.text) = <<>> THEN <<>>
                                 ELSE PdfPasses(resp.text, resp.chunk_size,
                                                resp.overlap, 0, {}),
                  chunks     |-> [i \in 1..Len(r) |-> r[i].content],
                  outcome    |-> IF _create_content_chunks_returns(
                                        resp.text, resp.chunk_size, resp.overlap)
                                 THEN "returned" ELSE "loops_forever"]
    /\ UNCHANGED <<env, disk, vector_service, chatbot_service>>

NextChunk == ChunkText \/ CreateContentChunks

SpecChunk == InitChunk /\ [][NextChunk]_vars

(***************************************************************************)
(* Properties.                                                             *)
(***************************************************************************)
Range(f) == {f[x] : x \in DOMAIN f}

\* The store /index-document fills and the store the chatbot searches.
ModuleStore == vector_service.vector_store
ChatStore == chatbot_service.vector_service.vector_store

\* The chunks of the document of the last index_document call.
RespDoc == DocChunks(resp.content, resp.source_file, resp.course_id, resp.chapter_name)

QueryVectors == {Embed(q) : q \in Queries}

\* C1: the index ingestion populates is the index the orchestrator's
\* retriever searches: whenever process_message has run, every fragment that
\* index_document added in this process (the int-keyed entries of the
\* module-level store) is a fragment of the store process_message searched.
C1_IngestedIsSearched ==
    resp.op = "process_message" =>
        \A key \in DOMAIN ModuleStore.metadata :
            key[1] = "int" =>
                ModuleStore.metadata[key] \in Range(ChatStore.metadata)

\* C2: index round trip: after an index_document call that added its batch
\* and saved both files, a fresh store loaded from the files answers
\* search(q, k) with the same fragments, order and scores as the store in
\* memory, for every query vector q and every k up to the index size.
C2_IndexRoundTrip ==
    (/\ resp.op = "index_document" /\ resp.success /\ resp.had_index
     /\ ~resp.add_raised /\ resp.save_fault = "none") =>
        \A q \in QueryVectors, k \in 1..Len(ModuleStore.vectors) :
            search(_initialize_index(disk, TRUE), q, k, env.faiss_ties)
                = search(ModuleStore, q, k, env.faiss_ties)

\* C3: retriever course filter: a search_documents call with a course id
\* given (any integer, 0 included) returns only results of that course.
C3_CourseFilter ==
    (resp.op = "search_documents" /\ resp.course_id # None) =>
        \A i \in 1..Len(resp.results) :
            Some(resp.results[i].course_id) = resp.course_id

\* C4: when recording the turn raises after an answer was generated,
\* process_message still returns the generated answer, sources and
\* confidence.
C4_RecordingFailureKeepsAnswer ==
    (/\ resp.op = "process_message" /\ resp.record_raised
     /\ resp.generated.answer # NoneAnswer) =>
        resp.response = resp.generated

\* C5: when retrieval yields an empty context, the answer is the fixed
\* no-relevant-material text and the generation backend is not invoked,
\* whatever client is configured.
C5_EmptyContextSkipsBackend ==
    (resp.op = "process_message" /\ Len(resp.generated.sources) = 0) =>
        /\ ~resp.llm_called
        /\ resp.generated.answer = NoMaterialAnswer

\* Every chunk of the document is in the store: a metadata entry for it,
\* whose handle is a row of the index.
DocInStore(store, doc_chunks) ==
    \A i \in 1..Len(doc_chunks) :
        \E key \in DOMAIN store.metadata :
            /\ store.metadata[key] = doc_chunks[i]
            /\ key[2] < Len(store.vectors)

\* C6: ingestion reports success only if the document is in the index when
\* it returns: index_document answers True only with every chunk in the
\* store, and the PDF path answers True for a non-blank document only when
\* the index has grown.
C6_SuccessMeansIndexed ==
    /\ (resp.op = "index_document" /\ resp.success) =>
           DocInStore(ModuleStore, RespDoc)
    /\ (/\ resp.op = "_store_in_vector_db" /\ resp.success
        /\ Strip(resp.content) # <<>>) =>
           Len(ModuleStore.vectors) > resp.rows_before

\* C7: a document of empty or whitespace-only content, and a document
\* ingested while the embedding backend is unavailable, make index_document
\* report failure and add nothing to the index.
C7_NothingToIndexFails ==
    (/\ resp.op = "index_document"
     /\ (Strip(resp.content) = <<>> \/ resp.encode_failed)) =>
        /\ ~resp.success
        /\ Len(ModuleStore.vectors) = resp.rows_before
        /\ Cardinality(DOMAIN ModuleStore.metadata) = resp.keys_before

\* The handles of a store and the fragment a handle identifies.
Handles(store) == {key[2] : key \in DOMAIN store.metadata}
FragmentAt(store, h) ==
    store.metadata[IF IntKey(h) \in DOMAIN store.metadata THEN IntKey(h) ELSE StrKey(h)]

\* Metadata key h describes the vector at row h.
RowOfHandle(store) ==
    \A h \in Handles(store) :
        /\ h < Len(store.vectors)
        /\ store.vectors[h + 1] = Embed(FragmentAt(store, h).content)

\* A step keeps every handle on the fragment it identified.
HandlesKept ==
    \A h \in Handles(ModuleStore) :
        /\ h \in Handles(ModuleStore')
        /\ FragmentAt(ModuleStore', h) = FragmentAt(ModuleStore, h)

\* C8: handle stability: in every state metadata key h describes the vector
\* at row h, and every step, reloads and failed or partial saves included,
\* leaves each handle on the fragment it identified.
C8_HandleStability == [](RowOfHandle(ModuleStore)) /\ [][HandlesKept]_vars

\* All chunks of the document are in (vectors, metadata), at the rows and
\* keys after those present before the call; or none is.
DocAllIn(vectors, metadata, doc_chunks, rows_before, keys_before) ==
    \A i \in 1..Len(doc_chunks) :
        /\ rows_before + i <= Len(vectors)
        /\ vectors[rows_before + i] = Embed(doc_chunks[i].content)
        /\ \E key \in DOMAIN metadata :
               key[2] = keys_before + i - 1 /\ metadata[key] = doc_chunks[i]

DocNoneIn(vectors, metadata, rows_before, keys_before) ==
    /\ Len(vectors) <= rows_before
    /\ \A key \in DOMAIN metadata : key[2] < keys_before

AllOrNone(vectors, metadata) ==
    \/ DocAllIn(vectors, metadata, RespDoc, resp.rows_before, resp.keys_before)
    \/ DocNoneIn(vectors, metadata, resp.rows_before, resp.keys_before)

\* C9: document atomicity: after any index_document call, failed at any
\* step or not, the index in memory and the index in the files each hold
\* all of the document's chunks (vector and metadata entry) or none.
C9_DocumentAtomicity ==
    resp.op = "index_document" =>
        /\ AllOrNone(ModuleStore.vectors, ModuleStore.metadata)
        /\ AllOrNone(disk.index_file.vectors, disk.metadata_file.data)

\* A well-formed answer object: one of the answer texts, at most ChatTopK
\* sources, a confidence between 0 and the cap.
WellFormed(response) ==
    /\ response.answer.kind \in {"no_material", "mock", "llm", "error"}
    /\ Len(response.sources) <= ChatTopK
    /\ response.confidence \in 0..950

\* Total backend failure of the last process_message call: no embedding,
\* no index and no generation backend.
TotalFailure ==
    /\ resp.encode_failed
    /\ ~ChatStore.has_index
    /\ resp.llm_failed

\* C10 (as stated): process_message never raises and returns a well-formed
\* answer object under every combination of failures; in total backend
\* failure the answer is templated fallback text with confidence 0.0.
C10_AsStated ==
    resp.op = "process_message" =>
        /\ resp.outcome = "returned"
        /\ WellFormed(resp.response)
        /\ TotalFailure =>
               /\ resp.response.answer \in {NoMaterialAnswer, ErrorAnswer}
               /\ resp.response.confidence = 0

\* C10 (amended): process_message never raises and returns a well-formed
\* answer object under every combination of failures; in total backend
\* failure the answer is the no-relevant-material text with confidence 0.1
\* when the turn was recorded, and the error apology with no sources and
\* confidence 0.0 when recording raised.
C10_AlwaysAnswers ==
    resp.op = "process_message" =>
        /\ resp.outcome = "returned"
        /\ WellFormed(resp.response)
        /\ TotalFailure =>
               IF resp.record_raised
               THEN resp.response = ErrorResponse
               ELSE resp.response = RAGResponse(NoMaterialAnswer, <<>>, 100)

\* C10 witness: process_message has answered a recorded turn in total
\* backend failure.
C10_Witness ==
    /\ resp.op = "process_message"
    /\ TotalFailure
    /\ ~resp.record_raised
    /\ resp.response.answer = NoMaterialAnswer

\* C11: the confidence of _calculate_confidence is within [0, 0.95] (0..950
\* thousandths) for every context with non-negative scores, and is exactly
\* 0.1 (100 thousandths) for the empty context.
C11_ConfidenceBounds ==
    resp.op = "_calculate_confidence" =>
        /\ resp.confidence \in 0..950
        /\ Len(resp.search_results) = 0 => resp.confidence = 100

\* C11 witness: a non-empty context whose weighted sum exceeds the cap, so
\* that the cap decided the confidence.
C11_Witness ==
    /\ resp.op = "_calculate_confidence"
    /\ Len(resp.search_results) > 0
    /\ _calculate_confidence_uncapped(resp.search_results) > 950
    /\ resp.confidence = 950

\* The last call was one of the two chunkers.
Chunked == resp.op \in {"chunk_text", "_create_content_chunks"}

\* C12: chunker termination: under every configuration with
\* 0 < overlap < size the chunking loop ends, and every pass after which
\* the loop goes on starts later than the pass before it.
C12_ChunkerTerminates ==
    (Chunked /\ 0 < resp.overlap /\ resp.overlap < resp.chunk_size) =>
        /\ resp.outcome = "returned"
        /\ \A i \in 1..(Len(resp.passes) - 1) :
               resp.passes[i + 1].start > resp.passes[i].start

\* C13: a configuration with overlap >= size is rejected when the chunker
\* is called: the call neither returns chunks nor loops.
C13_BadOverlapRejected ==
    (Chunked /\ resp.overlap >= resp.chunk_size) => resp.outcome = "rejected"

\* The positions (1-based) of text inside the chunk of the window
\* [start, end): the window without the whitespace trimmed from its ends.
SpanOf(text, window) ==
    With(Slice(text, window.start, window.end), LAMBDA w :
        {p \in (window.start + 1)..window.end :
            /\ p > window.start + (Len(w) - Len(LStrip(w)))
            /\ p <= window.end - (Len(w) - Len(RStrip(w)))})

\* The positions of the text of the last chunker call that lie inside a
\* produced chunk: the whole text when chunk_text returned it as its one
\* chunk, the trimmed windows of the passes otherwise.
Covered ==
    IF resp.op = "chunk_text" /\ resp.passes = <<>>
    THEN 1..Len(resp.text)
    ELSE UNION {SpanOf(resp.text, resp.passes[i]) : i \in 1..Len(resp.passes)}

\* C14 (as stated): chunk coverage: when a chunker returns with
\* overlap > 0, every character position of the text lies inside at least
\* one produced chunk.
C14_AsStated ==
    (Chunked /\ resp.outcome = "returned" /\ resp.overlap > 0) =>
        \A p \in 1..Len(resp.text) : p \in Covered

\* C14 (amended): chunk coverage: when a chunker returns with overlap > 0,
\* every position of the text that holds a non-whitespace character lies
\* inside at least one produced chunk.
C14_ChunkCoverage ==
    (Chunked /\ resp.outcome = "returned" /\ resp.overlap > 0) =>
        \A p \in 1..Len(resp.text) :
            resp.text[p] \notin Whitespace => p \in Covered

\* C14 witness: a chunker returned several chunks with overlap > 0 and a
\* whitespace position of the text lies in none of them.
C14_Witness ==
    /\ Chunked /\ resp.outcome = "returned"
    /\ 0 < resp.overlap /\ resp.overlap < resp.chunk_size
    /\ Len(resp.chunks) >= 2
    /\ \E p \in 1..Len(resp.text) : p \notin Covered

\* C15: chunk size bound: every chunk a chunker produces is at most the
\* configured size long; snapping to a word boundary and trimming only
\* shorten a window.
C15_ChunkSizeBound ==
    Chunked => \A i \in 1..Len(resp.chunks) : Len(resp.chunks[i]) <= resp.chunk_size

\* C15 witness: the PDF chunker returned and one of its windows was snapped
\* back to a word boundary, ending before the full window would have.
C15_Witness ==
    /\ resp.op = "_create_content_chunks" /\ resp.outcome = "returned"
    /\ \E i \in 1..Len(resp.passes) :
           /\ resp.passes[i].end < Len(resp.text)
           /\ resp.passes[i].end < resp.passes[i].start + resp.chunk_size
    /\ \E i \in 1..Len(resp.chunks) : Len(resp.chunks[i]) = resp.chunk_size - 2

\* The last call was an ingestion of a document longer than one window.
IngestedLong ==
    /\ resp.op \in {"index_document", "_store_in_vector_db"}
    /\ Len(resp.content) > 500

\* C16: every ingestion path chunks with size 500 and overlap 100: for a
\* document longer than 500 characters, in the PDF path and in
\* index_document -> chunk_text alike, the first window is 500 characters
\* and each later window starts exactly 100 characters before the end of
\* the previous one.
C16_IngestionUses500And100 ==
    IngestedLong =>
        /\ Len(resp.windows) >= 2
        /\ resp.windows[1].start = 0 /\ resp.windows[1].end = 500
        /\ \A i \in 1..(Len(resp.windows) - 1) :
               resp.windows[i + 1].start = resp.windows[i].end - 100

\* C17: retrieval degrades to an empty result: search_documents returned
\* [] whenever the index was unavailable or empty or the query could not be
\* embedded (model missing or encode failing), and FAISSVectorStore.search
\* on an empty index returns [] for every query vector and k.
C17_RetrievalDegradesToEmpty ==
    /\ (resp.op = "search_documents"
         /\ (resp.encode_failed \/ ~resp.had_index \/ resp.rows = 0))
            => resp.results = <<>>
    /\ Len(vector_service.vector_store.vectors) = 0 =>
           \A q \in QueryVectors, k \in 1..((MaxK + 1) * OverfetchFactor) :
               search(vector_service.vector_store, q, k, env.faiss_ties) = <<>>

\* C17 witness: a search whose query could not be embedded, on a store that
\* holds fragments a search can return, returned [].
C17_Witness ==
    /\ resp.op = "search_documents" /\ resp.encode_failed /\ resp.rows > 0
    /\ HasHandle(vector_service.vector_store.metadata, 0)
    /\ resp.results = <<>>

\* C18: search_documents(query, C, k), for a course C and a query that is
\* embedded, returned exactly the first k elements of the list obtained by
\* taking the 2k nearest fragments of the whole index and keeping those of
\* course C, in their nearest-first order; hence at most k results.
C18_OverfetchThenFilter ==
    (resp.op = "search_documents" /\ resp.course_id # None /\ ~resp.encode_failed) =>
        /\ resp.results =
               Take(SelectSeq2(search(vector_service.vector_store, Embed(resp.query),
                                      2 * resp.k, env.faiss_ties),
                               LAMBDA r : Some(r.course_id) = resp.course_id, 1),
                    resp.k)
        /\ Len(resp.results) <= resp.k

\* C19: the results of search_documents are ordered ascending by distance
\* score, and results of equal score by ascending chunk_index.
C19_OrderedByScoreThenChunk ==
    resp.op = "search_documents" =>
        \A i, j \in 1..Len(resp.results) :
            i < j =>
                \/ resp.results[i].score < resp.results[j].score
                \/ /\ resp.results[i].score = resp.results[j].score
                   /\ resp.results[i].metadata.chunk_index
                          <= resp.results[j].metadata.chunk_index

\* The role and content of the messages get_chat_history returns for the
\* session, in order: none when it returns None.
HistoryOf(cs, session_id) ==
    IF get_chat_history(cs, session_id) = None THEN <<>>
    ELSE With(CHOOSE session \in get_chat_history(cs, session_id) : TRUE,
              LAMBDA session :
                  [i \in 1..Len(session.messages) |->
                      [role    |-> session.messages[i].role,
                       content |-> session.messages[i].content]])

\* C20: every process_message call on a session extends the history
\* get_chat_history returns for it by exactly two messages, the question
\* as "user" and then the returned answer as "assistant"; so after n calls
\* on the same session the history is 2n messages in call order,
\* alternating user and assistant, the k-th pair holding the k-th question
\* and its answer.
C20_HistoryGrowsByPairs ==
    [][resp'.op = "process_message" =>
          HistoryOf(chatbot_service', resp'.session_id)
              = HistoryOf(chatbot_service, resp'.session_id)
                \o <<[role |-> "user", content |-> resp'.user_message],
                     [role |-> "assistant", content |-> resp'.response.answer]>>]_vars

\* The messages of a session of the store, none for an id it does not hold.
MessagesOf(cs, session_id) ==
    IF session_id \in DOMAIN cs.active_sessions
    THEN cs.active_sessions[session_id].messages
    ELSE <<>>

\* The messages a step added at the end of a session.
Appended(session_id) ==
    SubSeq(MessagesOf(chatbot_service', session_id),
           Len(MessagesOf(chatbot_service, session_id)) + 1,
           Len(MessagesOf(chatbot_service', session_id)))

\* The two entries of the process_message call a step made, by role and
\* content: the question and the generated answer.
EntriesOfCall ==
    <<[role |-> "user", content |-> resp'.user_message],
      [role |-> "assistant", content |-> resp'.generated.answer]>>

\* Every step keeps the messages the sessions already hold, in place, and
\* leaves no two messages of a session with the same message_id.
NothingOverwritten ==
    /\ \A s \in DOMAIN chatbot_service.active_sessions :
          /\ s \in DOMAIN chatbot_service'.active_sessions
          /\ Len(MessagesOf(chatbot_service', s)) >= Len(MessagesOf(chatbot_service, s))
          /\ SubSeq(MessagesOf(chatbot_service', s), 1,
                    Len(MessagesOf(chatbot_service, s)))
                 = MessagesOf(chatbot_service, s)
    /\ \A s \in DOMAIN chatbot_service'.active_sessions :
          \A i, j \in 1..Len(MessagesOf(chatbot_service', s)) :
              i # j => MessagesOf(chatbot_service', s)[i].message_id
                           # MessagesOf(chatbot_service', s)[j].message_id

\* The messages a process_message step added are entries of that call, in
\* order, each at most once, and only its own session changed.
OnlyOwnEntries ==
    /\ \A s \in SessionIds \ {resp'.session_id} : Appended(s) = <<>>
    /\ Len(Appended(resp'.session_id)) <= 2
    /\ \A i \in 1..Len(Appended(resp'.session_id)) :
           /\ Appended(resp'.session_id)[i].role = EntriesOfCall[i].role
           /\ Appended(resp'.session_id)[i].content = EntriesOfCall[i].content

\* C21: process_message calls on the same session that are in flight
\* together leave the session's message list in one serialization order
\* holding every call's entries exactly once: every step keeps the messages
\* already there (none lost or overwritten), every call adds at the end
\* its two entries, the question and then the answer, once and to its own
\* session only, and no two messages of a session share a message_id.
C21_SerializedAppends ==
    [][/\ NothingOverwritten
       /\ resp'.op = "process_message" =>
              OnlyOwnEntries /\ Len(Appended(resp'.session_id)) = 2]_vars

\* What holds of C21 in every step: nothing is overwritten or duplicated,
\* and a call whose recording does not raise adds exactly its two entries.
SerializedWhenRecorded ==
    [][/\ NothingOverwritten
       /\ resp'.op = "process_message" =>
              /\ OnlyOwnEntries
              /\ ~resp'.record_raised => Len(Appended(resp'.session_id)) = 2]_vars

\* C22: a session's updated_at strictly increases on every append: a step
\* that adds messages to a session leaves its updated_at strictly greater
\* than it was before the step, and strictly greater than its created_at.
C22_UpdatedAtIncreases ==
    [][\A s \in DOMAIN chatbot_service'.active_sessions :
          Appended(s) # <<>> =>
              /\ chatbot_service'.active_sessions[s].updated_at
                     > chatbot_service'.active_sessions[s].created_at
              /\ s \in DOMAIN chatbot_service.active_sessions =>
                     chatbot_service'.active_sessions[s].updated_at
                         > chatbot_service.active_sessions[s].updated_at]_vars

\* C23: a process_message call for a session id the store does not hold
\* creates the session, with the fields start_new_session gives a session
\* of the same student_id and course_id, and records the turn in it (the
\* question and the returned answer), without error and without a prior
\* start_new_session.
C23_AutoCreatesSession ==
    [][(resp'.op = "process_message"
        /\ resp'.session_id \notin DOMAIN chatbot_service.active_sessions) =>
           /\ resp'.session_id \in DOMAIN chatbot_service'.active_sessions
           /\ [chatbot_service'.active_sessions[resp'.session_id]
                   EXCEPT !.messages = <<>>]
                  = NewSession(resp'.session_id, resp'.student_id, resp'.course_id,
                               resp'.now)
           /\ ~resp'.record_raised
           /\ HistoryOf(chatbot_service', resp'.session_id)
                  = <<[role |-> "user", content |-> resp'.user_message],
                      [role |-> "assistant", content |-> resp'.response.answer]>>]_vars

\* C24: a hung external backend never hangs a request: every started
\* process_message call eventually returns a response, also when the
\* embedding call or the generation call never returns.
C24_RequestsRespond ==
    (resp.op = "request" /\ resp.phase = "STARTED")
        ~> (resp.op = "request" /\ resp.phase = "RESPONDED")

\* The store holds nothing of the batch of the last index_document call.
BatchAbsent(store) ==
    /\ Len(store.vectors) = resp.rows_before
    /\ Cardinality(DOMAIN store.metadata) = resp.keys_before

\* The store holds the whole batch of the last index_document call: every
\* vector of it, each with its metadata under the row search looks it up by.
BatchWhole(store) ==
    /\ Len(store.vectors) = resp.rows_before + Len(RespDoc)
    /\ \A i \in 1..Len(RespDoc) :
           /\ store.vectors[resp.rows_before + i] = Embed(RespDoc[i].content)
           /\ HasHandle(store.metadata, resp.rows_before + i - 1)
           /\ store.metadata[IntKey(resp.rows_before + i - 1)] = RespDoc[i]

\* C25: no dirty reads: the state of the index a search can observe once an
\* add_documents batch has begun is the state before the batch or the
\* state after the whole batch (vectors and their metadata), never one
\* with vectors of the batch searchable without their metadata or with
\* only part of the batch.
C25_NoDirtyReads ==
    resp.op = "index_document" => BatchAbsent(ModuleStore) \/ BatchWhole(ModuleStore)

\* C26: when a generation backend is configured and its call fails,
\* process_message does not return an error: it returns the templated
\* answer built from the top-ranked fragment's content and chapter name
\* (the no-relevant-material text for an empty context), together with the
\* retrieved sources and the computed confidence.
C26_GenerationFailureFallsBack ==
    (resp.op = "process_message" /\ resp.llm_raised) =>
        /\ resp.response.answer.kind \in {"mock", "no_material"}
        /\ resp.response.answer
               = _generate_mock_response(resp.generated.sources, resp.user_message)
        /\ resp.response.sources = resp.generated.sources
        /\ resp.response.confidence = _calculate_confidence(resp.generated.sources)

\* The window end a pass from start_idx must have when the word-boundary
\* rule is applied to its own window: the last whitespace of the window
\* when the window stops inside the content, does not end on whitespace and
\* the retraction removes at most 20% of chunk_size; the window end
\* otherwise.
RetractedEnd(content, chunk_size, start_idx) ==
    IF /\ start_idx + chunk_size < Len(content)
       /\ content[start_idx + chunk_size] # " "
       /\ RFindSpace(Slice(content, start_idx, start_idx + chunk_size)) >= 0
       /\ 10 * (chunk_size - RFindSpace(Slice(content, start_idx, start_idx + chunk_size)))
              <= (10 - SnapTenths) * chunk_size
    THEN start_idx + RFindSpace(Slice(content, start_idx, start_idx + chunk_size))
    ELSE Min(start_idx + chunk_size, Len(content))

\* C27: word-boundary snapping applies to every window of
\* _create_content_chunks, not only the first: the end of each pass is the
\* last whitespace of its window exactly when the window stops inside the
\* content, does not end on whitespace and the retraction removes no more
\* than 20% of the window, and the window end otherwise.
C27_SnapsEveryWindow ==
    resp.op = "_create_content_chunks" =>
        \A i \in 1..Len(resp.passes) :
            resp.passes[i].end
                = RetractedEnd(resp.text, resp.chunk_size, resp.passes[i].start)

\* Fragment i of the document sits at row rows_before + i of the index,
\* with its chunk's content, chunk_index i and the call's course_id and
\* chapter_name (i counted from 0).
FragmentsInOrder(store, doc_chunks, rows_before) ==
    \A i \in 1..Len(doc_chunks) :
        /\ IntKey(rows_before + i - 1) \in DOMAIN store.metadata
        /\ store.metadata[IntKey(rows_before + i - 1)].content = doc_chunks[i].content
        /\ store.metadata[IntKey(rows_before + i - 1)].metadata.chunk_index = i - 1
        /\ store.metadata[IntKey(rows_before + i - 1)].course_id = resp.course_id
        /\ store.metadata[IntKey(rows_before + i - 1)].chapter_name = resp.chapter_name

\* C28: a successful ingest adds to the index exactly one fragment per
\* chunk of the chunker, in chunk order, fragment i carrying chunk_index i
\* and the call's course_id and chapter_name.
C28_OneFragmentPerChunk ==
    (resp.op = "index_document" /\ resp.success) =>
        /\ Len(ModuleStore.vectors) = resp.rows_before + Len(RespDoc)
        /\ Cardinality(DOMAIN ModuleStore.metadata) = resp.keys_before + Len(RespDoc)
        /\ FragmentsInOrder(ModuleStore, RespDoc, resp.rows_before)

\* C29: turn atomicity: in every reachable state every session's message
\* list has even length with roles alternating user, assistant: a turn is
\* recorded completely or not at all, also when process_message ends in
\* its error response.
C29_TurnAtomicity ==
    \A session_id \in DOMAIN chatbot_service.active_sessions :
        /\ Len(MessagesOf(chatbot_service, session_id)) % 2 = 0
        /\ \A i \in 1..Len(MessagesOf(chatbot_service, session_id)) :
               MessagesOf(chatbot_service, session_id)[i].role
                   = IF i % 2 = 1 THEN "user" ELSE "assistant"

\* C30: session scoping: every message stored in a session was submitted
\* by a process_message call whose student_id and course_id equal the
\* session's; a call naming an existing session of another student does
\* not append to it.
C30_SessionScoping ==
    [][(resp'.op = "process_message" /\ Appended(resp'.session_id) # <<>>) =>
          /\ resp'.student_id
                 = chatbot_service'.active_sessions[resp'.session_id].student_id
          /\ resp'.course_id
                 = chatbot_service'.active_sessions[resp'.session_id].course_id]_vars

====
